---- MODULE Spec2Model ----
(***************************************************************************)
(* A model of heka's pipeline runner (src/pipeline/pipeline_runner.go):    *)
(* the pooled PipelinePack, the recycle channel, the per-message pipeline  *)
(* procedure with filterProcessor, and BroadcastEvent.                     *)
(***************************************************************************)
EXTENDS Integers, Sequences, FiniteSets, TLC

(***************************************************************************)
(* Bounds of the model.                                                    *)
(***************************************************************************)
\* config.PoolSize: the number of packs Run pre-allocates.
PoolSize == 2
\* The number of pipeline invocations (messages submitted by inputs) explored.
MaxCycles == 2

\* make([]byte, 65536): the capacity of a pack's MsgBytes.
MsgBytesCap == 65536

(***************************************************************************)
(* The PipelineConfig handed to Run.  The core only reads it.              *)
(***************************************************************************)
DefaultDecoder == "json"
DefaultFilterChain == "default"
\* The keys of config.Decoders, config.Filters, config.Outputs, config.Inputs.
ConfigDecoders == {"json"}
ConfigFilters == {"noop", "block-all"}
ConfigOutputs == {"out1", "out2"}
ConfigInputs == {"in1", "in2"}

\* config.FilterChains: chain name -> ordered filter names and output names.
\* "chainG" names a filter and "chainC" an output that are in no plugin map.
FilterChains ==
    [c \in {"default", "chainB", "chainC", "chainG"} |->
        CASE c = "default" -> [Filters |-> << >>, Outputs |-> <<"out1">>]
          [] c = "chainB"  -> [Filters |-> <<"noop", "block-all", "noop">>,
                               Outputs |-> <<"out1">>]
          [] c = "chainC"  -> [Filters |-> <<"noop", "noop">>,
                               Outputs |-> <<"out2", "ghostOut", "out2">>]
          [] c = "chainG"  -> [Filters |-> <<"noop", "ghostFilter", "noop">>,
                               Outputs |-> <<"out2">>]]

\* The values a pack's Message takes: the zero Message{} and decoded messages.
EmptyMessage == "empty"
Messages == {"plain", "toB", "toC", "toG", "toX"}
\* What an input reads into MsgBytes: an encoded message or malformed bytes.
Payloads == Messages \cup {"bad"}

\* config.Lookup.LocateChain(message): (chain name, found).
LocateChain(msg) ==
    CASE msg = "toB" -> [name |-> "chainB", ok |-> TRUE]
      [] msg = "toC" -> [name |-> "chainC", ok |-> TRUE]
      [] msg = "toG" -> [name |-> "chainG", ok |-> TRUE]
      [] msg = "toX" -> [name |-> "nochain", ok |-> TRUE]
      [] OTHER       -> [name |-> "", ok |-> FALSE]

(***************************************************************************)
(* Events a cycle leaves in its pack's trace (a history of the calls made  *)
(* on the pack, kept by the model only).                                   *)
(***************************************************************************)
Ev(k, n, i) == [k |-> k, n |-> n, i |-> i]

(***************************************************************************)
(* PipelinePack.                                                           *)
(***************************************************************************)
\* NewPipelinePack(config), with InitDecoders, InitFilters and InitOutputs:
\* the private plugin maps are keyed like the config's.
NewPipelinePack ==
    [MsgBytesLen |-> MsgBytesCap,
     MsgBytes    |-> "zeros",
     Message     |-> EmptyMessage,
     Decoder     |-> DefaultDecoder,
     Decoders    |-> ConfigDecoders,
     Filters     |-> ConfigFilters,
     Outputs     |-> ConfigOutputs,
     Decoded     |-> FALSE,
     Blocked     |-> FALSE,
     FilterChain |-> DefaultFilterChain,
     OutputNames |-> << >>]

\* An OutputNames map (name -> use) is a function on the names it holds; the
\* empty map is the empty function << >>.
SetOutput(names, n) == [x \in (DOMAIN names) \cup {n} |-> IF x = n THEN TRUE ELSE names[x]]

\* Mutant of Zero: Blocked is not cleared.
ZeroKeepsBlocked(p) ==
    [p EXCEPT !.MsgBytesLen = MsgBytesCap,
              !.Decoder = DefaultDecoder,
              !.Decoded = FALSE,
              !.FilterChain = DefaultFilterChain,
              !.OutputNames = << >>]

\* Mutant of Zero: FilterChain is not reset to the default.
ZeroKeepsFilterChain(p) ==
    [p EXCEPT !.MsgBytesLen = MsgBytesCap,
              !.Decoder = DefaultDecoder,
              !.Decoded = FALSE,
              !.Blocked = FALSE,
              !.OutputNames = << >>]

\* PipelinePack.Zero.
Zero(p) ==
    [p EXCEPT !.MsgBytesLen = MsgBytesCap,
              !.Decoder = DefaultDecoder,
              !.Decoded = FALSE,
              !.Blocked = FALSE,
              !.FilterChain = DefaultFilterChain,
              !.OutputNames = << >>]

(***************************************************************************)
(* The plugins the core calls.  Their code is outside the runner; these    *)
(* are the stub behaviours the runner is exercised with.                   *)
(***************************************************************************)
\* Decoder.Decode(pack): fills Message from the bytes read, or fails on
\* malformed bytes and leaves the pack as it was.
Decode(p) ==
    IF p.MsgBytes \in Messages
    THEN [pack |-> [p EXCEPT !.Message = p.MsgBytes], err |-> FALSE]
    ELSE [pack |-> p, err |-> TRUE]

\* Filter.FilterMsg(pack): "block-all" sets Blocked, "noop" does nothing.
FilterMsg(name, p) ==
    IF name = "block-all" THEN [p EXCEPT !.Blocked = TRUE] ELSE p

(***************************************************************************)
(* filterProcessor.                                                        *)
(***************************************************************************)
\* for _, outputName := range filterChain.Outputs { OutputNames[name] = true }
RECURSIVE SelectOutputs(_, _, _)
SelectOutputs(names, outputs, i) ==
    IF i > Len(outputs) THEN names
    ELSE SelectOutputs(SetOutput(names, outputs[i]), outputs, i + 1)

\* Mutant of RunFilters: the loop does not return when a filter blocks.
RECURSIVE RunFiltersNoReturn(_, _, _)
RunFiltersNoReturn(p, filters, i) ==
    IF i > Len(filters)
    THEN [pack |-> p, ev |-> << >>, st |-> IF p.Blocked THEN "blocked" ELSE "done"]
    ELSE IF filters[i] \notin p.Filters
         THEN [pack |-> p, ev |-> <<Ev("nilfilter", filters[i], i)>>, st |-> "panic"]
         ELSE LET q == FilterMsg(filters[i], p)
                  e == IF q.Blocked
                       THEN <<Ev("filter", filters[i], i), Ev("blocked", filters[i], i)>>
                       ELSE <<Ev("filter", filters[i], i)>>
                  r == RunFiltersNoReturn(q, filters, i + 1)
              IN  [pack |-> r.pack, ev |-> e \o r.ev, st |-> r.st]

\* for _, filterName := range filterChain.Filters { ... }: the pack after the
\* loop, the calls made, and how the loop ended: "done", "blocked" (return at
\* the first filter that leaves Blocked set) or "panic" (the name is not in
\* pack.Filters, so the method is called on a nil Filter).
RECURSIVE RunFilters(_, _, _)
RunFilters(p, filters, i) ==
    IF i > Len(filters) THEN [pack |-> p, ev |-> << >>, st |-> "done"]
    ELSE IF filters[i] \notin p.Filters
         THEN [pack |-> p, ev |-> <<Ev("nilfilter", filters[i], i)>>, st |-> "panic"]
         ELSE LET q == FilterMsg(filters[i], p)
                  e == Ev("filter", filters[i], i)
              IN  IF q.Blocked
                  THEN [pack |-> q, ev |-> <<e, Ev("blocked", filters[i], i)>>,
                        st |-> "blocked"]
                  ELSE LET r == RunFilters(q, filters, i + 1)
                       IN  [pack |-> r.pack, ev |-> <<e>> \o r.ev, st |-> r.st]

\* Mutant of ResolvedChainName: with no match the name is left empty.
ResolvedChainNameFallbackEmpty(p, loc) == IF loc.ok THEN loc.name ELSE ""

\* The chain name filterProcessor resolves: the located one, else the pack's.
ResolvedChainName(p, loc) == IF loc.ok THEN loc.name ELSE p.FilterChain

\* Mutant of ChainFor: a missing chain is replaced by the default chain.
ChainForFallsBackToDefault(cn) ==
    IF cn \in DOMAIN FilterChains
    THEN [ok |-> TRUE, chain |-> FilterChains[cn]]
    ELSE [ok |-> TRUE, chain |-> FilterChains[DefaultFilterChain]]

\* filterChain, ok := config.FilterChains[filterChainName]
ChainFor(cn) ==
    IF cn \in DOMAIN FilterChains
    THEN [ok |-> TRUE, chain |-> FilterChains[cn]]
    ELSE [ok |-> FALSE, chain |-> [Filters |-> << >>, Outputs |-> << >>]]

filterProcessor(p) ==
    LET p0  == [p EXCEPT !.OutputNames = << >>]
        loc == LocateChain(p0.Message)
        cn  == ResolvedChainName(p0, loc)
        p1  == IF loc.ok THEN [p0 EXCEPT !.FilterChain = loc.name] ELSE p0
        fc  == ChainFor(cn)
        e1  == <<Ev("route", p.FilterChain, 0),
                 Ev("locate", IF loc.ok THEN loc.name ELSE "", IF loc.ok THEN 1 ELSE 0),
                 Ev("resolve", cn, IF cn \in DOMAIN FilterChains THEN 1 ELSE 0)>>
    IN  IF ~fc.ok
        THEN [pack |-> p1, ev |-> e1, st |-> "nochain"]
        ELSE LET p2 == [p1 EXCEPT !.OutputNames =
                            SelectOutputs(p1.OutputNames, fc.chain.Outputs, 1)]
                 r  == RunFilters(p2, fc.chain.Filters, 1)
             IN  [pack |-> r.pack,
                  ev   |-> e1 \o <<Ev("select", cn, Cardinality(DOMAIN p2.OutputNames))>> \o r.ev,
                  st   |-> r.st]

(***************************************************************************)
(* The delivery loop of pipeline: for outputName, use := range OutputNames.*)
(***************************************************************************)
\* The orders in which a range over a map with key set S may visit it.
RECURSIVE Orders(_)
Orders(S) ==
    IF S = {} THEN {<< >>}
    ELSE UNION {{<<x>> \o o : o \in Orders(S \ {x})} : x \in S}

\* One iteration: nothing for an unused name, a log line for a name with no
\* output, else output.Deliver(pack).
DeliverOne(p, name) ==
    IF ~p.OutputNames[name] THEN << >>
    ELSE IF name \notin p.Outputs THEN <<Ev("nooutput", name, 0)>>
    ELSE <<Ev("deliver", name, 0)>>

RECURSIVE DeliverAll(_, _, _)
DeliverAll(p, order, i) ==
    IF i > Len(order) THEN << >>
    ELSE DeliverOne(p, order[i]) \o DeliverAll(p, order, i + 1)

(***************************************************************************)
(* State.                                                                  *)
(***************************************************************************)
VARIABLES
    packs,        \* the PipelinePacks allocated so far, by index
    pc,           \* where each pack is: "pool", "input", or a step of pipeline
    trace,        \* per pack: the calls of its current (or last) cycle
    recycleChan,  \* the buffered channel of packs, capacity PoolSize + 1
    held,         \* per started input: the pack it received (0: none)
    started,      \* the inputs whose runner Run has started
    cycles,       \* pipeline invocations so far
    crashed,      \* an unrecovered panic has ended the process
    panicked,     \* a panic has run its deferred calls: the process is ending
    globals,      \* the plugin wrappers whose global is not nil
    bcast,        \* the BroadcastEvent call in progress
    run           \* Run's own position, its WaitGroup and the signals so far

vars == <<packs, pc, trace, recycleChan, held, started, cycles, crashed, panicked, globals, bcast, run>>
runVars == <<packs, pc, trace, recycleChan, held, started, cycles, crashed, panicked, run>>

Units == 1..Len(packs)
NoPack == 0
IdleBroadcast ==
    [pc |-> "idle", eventType |-> "", postErr |-> FALSE,
     seenFilters |-> {}, seenOutputs |-> {}, calls |-> << >>]
\* Run before its loop over config.Inputs: the WaitGroup is zero, no runner has
\* finished, no signal has come.  hups, ints, reloads and stops count the
\* signals delivered while Run listens and the broadcasts that have returned.
IdleRun ==
    [pc |-> "start", wg |-> 0, done |-> {}, sig |-> "",
     hups |-> 0, ints |-> 0, reloads |-> 0, stops |-> 0]

\* Run up to the pre-fill loop: the channel is made and holds nothing.
Init ==
    /\ packs = << >>
    /\ pc = << >>
    /\ trace = << >>
    /\ recycleChan = << >>
    /\ held = [i \in ConfigInputs |-> NoPack]
    /\ started = {}
    /\ cycles = 0
    /\ crashed = FALSE
    /\ panicked = FALSE
    /\ globals = {}
    /\ bcast = IdleBroadcast
    /\ run = IdleRun

\* No deferred function recovers: once the deferred calls of the panicking
\* goroutine have returned the runtime reports the panic and the process exits,
\* at a moment the other goroutines do not choose.
FatalPanic ==
    /\ ~crashed
    /\ panicked
    /\ crashed' = TRUE
    /\ UNCHANGED <<packs, pc, trace, recycleChan, held, started, cycles, panicked,
                   globals, bcast, run>>

(***************************************************************************)
(* Run: the pre-fill loop and the start of the inputs.                     *)
(***************************************************************************)
\* Mutant of PrefillCount: the loop runs while i <= config.PoolSize.
PrefillCountToCapacity == PoolSize + 1

\* The number of packs the pre-fill loop sends: i < config.PoolSize.
PrefillCount == PoolSize
\* Mutant of RecycleCap: the channel is made one slot short of the pool.
RecycleCapTooSmall == PoolSize - 1

\* make(chan *PipelinePack, config.PoolSize+1)
RecycleCap == PoolSize + 1

\* recycleChan <- NewPipelinePack(config)
Prefill ==
    /\ ~crashed
    /\ Len(packs) < PrefillCount
    /\ Len(recycleChan) < RecycleCap
    /\ packs' = Append(packs, NewPipelinePack)
    /\ pc' = Append(pc, "pool")
    /\ trace' = Append(trace, << >>)
    /\ recycleChan' = Append(recycleChan, Len(packs) + 1)
    /\ UNCHANGED <<held, started, cycles, crashed, panicked, globals, bcast, run>>

\* for name, wrapper := range config.Inputs: one iteration is the two steps
\* below, and the started runner runs between them.
\* runner.Start(pipeline, recycleChan, &wg): the runner's task exists from here
\* on, while Run has yet to count it.
RunStart(name) ==
    /\ ~crashed
    /\ run.pc = "start"
    /\ Len(packs) = PrefillCount
    /\ name \notin started
    /\ started' = started \cup {name}
    /\ run' = [run EXCEPT !.pc = "add"]
    /\ UNCHANGED <<packs, pc, trace, recycleChan, held, cycles, crashed, panicked, globals, bcast>>

\* wg.Add(1), after the Start of the same iteration.
RunAdd ==
    /\ ~crashed
    /\ run.pc = "add"
    /\ run' = [run EXCEPT !.pc = "start", !.wg = @ + 1]
    /\ UNCHANGED <<packs, pc, trace, recycleChan, held, started, cycles, crashed, panicked,
                   globals, bcast>>

(***************************************************************************)
(* An input's runner: it receives a pack from recycleChan, reads a message *)
(* into it and spawns pipeline(pack).                                      *)
(***************************************************************************)
\* pack = <-recycleChan: blocks while the channel is empty.
Acquire(name) ==
    /\ ~crashed
    /\ name \in started
    /\ held[name] = NoPack
    /\ recycleChan # << >>
    /\ held' = [held EXCEPT ![name] = Head(recycleChan)]
    /\ recycleChan' = Tail(recycleChan)
    /\ pc' = [pc EXCEPT ![Head(recycleChan)] = "input"]
    /\ UNCHANGED <<packs, trace, started, cycles, crashed, panicked, globals, bcast, run>>

\* What an input may leave in the pack it submits: the bytes read, the decoder
\* it selects, and, for an input that decodes itself, the decoded message.
Submissions ==
    {[bytes |-> b, decoder |-> DefaultDecoder, decoded |-> FALSE] : b \in Payloads}
    \cup {[bytes |-> "plain", decoder |-> "ghostDecoder", decoded |-> FALSE]}
    \cup {[bytes |-> b, decoder |-> DefaultDecoder, decoded |-> TRUE] : b \in {"toB"}}

ReadInto(p, sub) ==
    [p EXCEPT !.MsgBytes = sub.bytes,
              !.MsgBytesLen = IF sub.bytes = "bad" THEN 3 ELSE 12,
              !.Decoder = sub.decoder,
              !.Decoded = sub.decoded,
              !.Message = IF sub.decoded THEN sub.bytes ELSE @]

\* The chain whose outputs the cycle with trace tr selected ("" when none): what
\* a new cycle's trace remembers of the pack's previous cycle.
SelectedChain(tr) ==
    IF \E k \in DOMAIN tr : tr[k].k = "select"
    THEN tr[CHOOSE k \in DOMAIN tr : tr[k].k = "select"].n
    ELSE ""

\* input.Read(pack) and go pipeline(pack).
Submit(name, sub) ==
    /\ ~crashed
    /\ held[name] # NoPack
    /\ cycles < MaxCycles
    /\ LET u == held[name]
           q == ReadInto(packs[u], sub)
       IN  /\ packs' = [packs EXCEPT ![u] = q]
           /\ pc' = [pc EXCEPT ![u] = "decode"]
           /\ trace' = [trace EXCEPT ![u] =
                  <<Ev("prev", SelectedChain(trace[u]), 0),
                    Ev("enter", q.Decoder, IF q.Decoded THEN 1 ELSE 0)>>]
    /\ held' = [held EXCEPT ![name] = NoPack]
    /\ cycles' = cycles + 1
    /\ UNCHANGED <<recycleChan, started, crashed, panicked, globals, bcast, run>>

(***************************************************************************)
(* pipeline(pack), the closure of Run.                                     *)
(***************************************************************************)
\* Mutant of DecodeStep: the early returns skip the reset and the send (the
\* release is not deferred).
DecodeStepEarlyReturnLeaks(p) ==
    IF p.Decoded THEN [pack |-> p, ev |-> << >>, next |-> "filter"]
    ELSE IF p.Decoder \notin p.Decoders
         THEN [pack |-> p, ev |-> <<Ev("nodecoder", p.Decoder, 0)>>, next |-> "pool"]
         ELSE LET r == Decode(p)
              IN  IF r.err
                  THEN [pack |-> r.pack, ev |-> <<Ev("decode", p.Decoder, 0)>>,
                        next |-> "pool"]
                  ELSE [pack |-> [r.pack EXCEPT !.Decoded = TRUE],
                        ev |-> <<Ev("decode", p.Decoder, 1)>>, next |-> "filter"]

\* Mutant of DecodeStep: a decode error does not return.
DecodeStepIgnoresError(p) ==
    IF p.Decoded THEN [pack |-> p, ev |-> << >>, next |-> "filter"]
    ELSE IF p.Decoder \notin p.Decoders
         THEN [pack |-> p, ev |-> <<Ev("nodecoder", p.Decoder, 0)>>, next |-> "deferred"]
         ELSE LET r == Decode(p)
              IN  [pack |-> [r.pack EXCEPT !.Decoded = TRUE],
                   ev |-> <<Ev("decode", p.Decoder, IF r.err THEN 0 ELSE 1)>>,
                   next |-> "filter"]

\* Mutant of DecodeStep: the decoder is called whether or not the pack came in
\* decoded (the test of pack.Decoded is missing).
DecodeStepAlwaysDecodes(p) ==
    IF p.Decoder \notin p.Decoders
    THEN [pack |-> p, ev |-> <<Ev("nodecoder", p.Decoder, 0)>>, next |-> "deferred"]
    ELSE LET r == Decode(p)
         IN  IF r.err
             THEN [pack |-> r.pack, ev |-> <<Ev("decode", p.Decoder, 0)>>,
                   next |-> "deferred"]
             ELSE [pack |-> [r.pack EXCEPT !.Decoded = TRUE],
                   ev |-> <<Ev("decode", p.Decoder, 1)>>, next |-> "filter"]

\* if !pack.Decoded { ... }: the pack after it, the calls, and the next step.
DecodeStep(p) ==
    IF p.Decoded THEN [pack |-> p, ev |-> << >>, next |-> "filter"]
    ELSE IF p.Decoder \notin p.Decoders
         THEN [pack |-> p, ev |-> <<Ev("nodecoder", p.Decoder, 0)>>, next |-> "deferred"]
         ELSE LET r == Decode(p)
              IN  IF r.err
                  THEN [pack |-> r.pack, ev |-> <<Ev("decode", p.Decoder, 0)>>,
                        next |-> "deferred"]
                  ELSE [pack |-> [r.pack EXCEPT !.Decoded = TRUE],
                        ev |-> <<Ev("decode", p.Decoder, 1)>>, next |-> "filter"]

PipelineDecode(u) ==
    /\ ~crashed
    /\ pc[u] = "decode"
    /\ LET r == DecodeStep(packs[u])
       IN  /\ packs' = [packs EXCEPT ![u] = r.pack]
           /\ trace' = [trace EXCEPT ![u] = @ \o r.ev]
           /\ pc' = [pc EXCEPT ![u] = r.next]
    /\ UNCHANGED <<recycleChan, held, started, cycles, crashed, panicked, globals, bcast, run>>

\* filterProcessor(pack); if pack.Blocked { return }.  A panic in
\* filterProcessor unwinds to the deferred function.
FilterStep(p) ==
    LET r == filterProcessor(p)
    IN  [pack |-> r.pack, ev |-> r.ev,
         next |-> IF r.st = "panic" THEN "panicking"
                  ELSE IF r.pack.Blocked THEN "deferred" ELSE "deliver"]

PipelineFilter(u) ==
    /\ ~crashed
    /\ pc[u] = "filter"
    /\ LET r == FilterStep(packs[u])
       IN  /\ packs' = [packs EXCEPT ![u] = r.pack]
           /\ trace' = [trace EXCEPT ![u] = @ \o r.ev]
           /\ pc' = [pc EXCEPT ![u] = r.next]
    /\ UNCHANGED <<recycleChan, held, started, cycles, crashed, panicked, globals, bcast, run>>

\* for outputName, use := range pack.OutputNames { ... }
PipelineDeliver(u) ==
    /\ ~crashed
    /\ pc[u] = "deliver"
    /\ \E order \in Orders(DOMAIN packs[u].OutputNames) :
          trace' = [trace EXCEPT ![u] =
              @ \o <<Ev("range", "", Len(order))>> \o DeliverAll(packs[u], order, 1)]
    /\ pc' = [pc EXCEPT ![u] = "deferred"]
    /\ UNCHANGED <<packs, recycleChan, held, started, cycles, crashed, panicked, globals, bcast, run>>

\* defer func() { pack.Zero(); recycleChan <- pack }(): the pack and the calls.
DeferredStep(p) ==
    [pack |-> Zero(p), ev |-> <<Ev("zero", "", 0), Ev("recycle", "", 0)>>]

\* Mutant of PipelineRecycle: the pack is sent at the return and again by the
\* deferred function.
PipelineRecycleSendsTwice(u) ==
    /\ ~crashed
    /\ pc[u] \in {"deferred", "panicking"}
    /\ Len(recycleChan) + 1 < PoolSize + 1
    /\ LET r == DeferredStep(packs[u])
       IN  /\ packs' = [packs EXCEPT ![u] = r.pack]
           /\ trace' = [trace EXCEPT ![u] = @ \o r.ev]
    /\ recycleChan' = Append(Append(recycleChan, u), u)
    /\ pc' = [pc EXCEPT ![u] = "pool"]
    /\ panicked' = (panicked \/ pc[u] = "panicking")
    /\ UNCHANGED <<held, started, cycles, crashed, globals, bcast, run>>

\* The deferred function runs on return and on panic.  After it an unrecovered
\* panic goes on to end the process (FatalPanic), while the pack it has sent
\* is in the channel and every other goroutine still runs.
PipelineRecycle(u) ==
    /\ ~crashed
    /\ pc[u] \in {"deferred", "panicking"}
    /\ Len(recycleChan) < RecycleCap
    /\ LET r == DeferredStep(packs[u])
       IN  /\ packs' = [packs EXCEPT ![u] = r.pack]
           /\ trace' = [trace EXCEPT ![u] = @ \o r.ev]
    /\ recycleChan' = Append(recycleChan, u)
    /\ pc' = [pc EXCEPT ![u] = "pool"]
    /\ panicked' = (panicked \/ pc[u] = "panicking")
    /\ UNCHANGED <<held, started, cycles, crashed, globals, bcast, run>>

Next ==
    \/ Prefill
    \/ \E name \in ConfigInputs : RunStart(name)
    \/ RunAdd
    \/ \E name \in ConfigInputs : Acquire(name)
    \/ \E name \in ConfigInputs, sub \in Submissions : Submit(name, sub)
    \/ \E u \in Units : PipelineDecode(u)
    \/ \E u \in Units : PipelineFilter(u)
    \/ \E u \in Units : PipelineDeliver(u)
    \/ \E u \in Units : PipelineRecycle(u)
    \/ FatalPanic

Spec == Init /\ [][Next]_vars

\* The behaviours of Spec once more, by the names under which the outcomes of
\* decoding, routing and filtering and the order of a cycle's stages are read.
SpecRouting == Spec
SpecStages == Spec

(***************************************************************************)
(* Stalled cycles.  A decoder, filter or output may never return: the run  *)
(* of pipeline that called it stays in the call and keeps its pack.  Here  *)
(* the inputs go on submitting for ever, and every task that can run is    *)
(* scheduled.                                                              *)
(***************************************************************************)
\* The packs whose run of pipeline is inside a call that never returns.
Stalled == {u \in Units : pc[u] = "stalled"}

\* The call that pipeline is about to make on pack u never returns.
Stall(u) ==
    /\ ~crashed
    /\ pc[u] \in {"decode", "filter", "deliver"}
    /\ pc' = [pc EXCEPT ![u] = "stalled"]
    /\ UNCHANGED <<packs, trace, recycleChan, held, started, cycles, crashed, panicked,
                   globals, bcast, run>>

\* What the inputs read here: a message of the default chain, and one of the
\* chain that names a filter the packs do not have.
StallSubmissions ==
    {[bytes |-> b, decoder |-> DefaultDecoder, decoded |-> FALSE] : b \in {"plain", "toG"}}

\* input.Read(pack) and go pipeline(pack), as in Submit, any number of times.
SubmitAgain(name, sub) ==
    /\ ~crashed
    /\ held[name] # NoPack
    /\ LET u == held[name]
           q == ReadInto(packs[u], sub)
       IN  /\ packs' = [packs EXCEPT ![u] = q]
           /\ pc' = [pc EXCEPT ![u] = "decode"]
           /\ trace' = [trace EXCEPT ![u] =
                  <<Ev("prev", SelectedChain(trace[u]), 0),
                    Ev("enter", q.Decoder, IF q.Decoded THEN 1 ELSE 0)>>]
    /\ held' = [held EXCEPT ![name] = NoPack]
    /\ UNCHANGED <<recycleChan, started, cycles, crashed, panicked, globals, bcast, run>>

\* The steps of the run of pipeline on pack u, once the pack exists.
PipelineStep(u) ==
    /\ u \in Units
    /\ \/ PipelineDecode(u)
       \/ PipelineFilter(u)
       \/ PipelineDeliver(u)
       \/ PipelineRecycle(u)

\* The steps of the runner of input name.
InputStep(name) ==
    \/ Acquire(name)
    \/ \E sub \in StallSubmissions : SubmitAgain(name, sub)

NextStall ==
    \/ Prefill
    \/ \E name \in ConfigInputs : RunStart(name)
    \/ RunAdd
    \/ \E name \in ConfigInputs : Acquire(name)
    \/ \E name \in ConfigInputs, sub \in StallSubmissions : SubmitAgain(name, sub)
    \/ \E u \in Units : PipelineDecode(u)
    \/ \E u \in Units : PipelineFilter(u)
    \/ \E u \in Units : PipelineDeliver(u)
    \/ \E u \in Units : PipelineRecycle(u)
    \/ \E u \in Units : Stall(u)
    \/ FatalPanic

\* Run and every goroutine that is not blocked get to run; a receiver blocked
\* on recycleChan is served in its turn, however often others receive.
SpecStall ==
    /\ Init
    /\ [][NextStall]_vars
    /\ WF_vars(Prefill \/ RunAdd \/ \E name \in ConfigInputs : RunStart(name))
    /\ \A u \in 1..PoolSize : WF_vars(PipelineStep(u))
    /\ \A name \in ConfigInputs : SF_vars(InputStep(name))
    /\ WF_vars(FatalPanic)

(***************************************************************************)
(* BroadcastEvent.                                                         *)
(***************************************************************************)
\* Control channel event types used by go-notify.
RELOAD == "reload"
STOP == "stop"

\* The PluginWrappers of config.Decoders, config.Filters, config.Outputs and
\* config.Inputs; a wrapper of any kind may carry a global.
DecoderWrappers == {[kind |-> "decoder", name |-> n] : n \in ConfigDecoders}
FilterWrappers == {[kind |-> "filter", name |-> n] : n \in ConfigFilters}
OutputWrappers == {[kind |-> "output", name |-> n] : n \in ConfigOutputs}
InputWrappers == {[kind |-> "input", name |-> n] : n \in ConfigInputs}
Wrappers == DecoderWrappers \cup FilterWrappers \cup OutputWrappers \cup InputWrappers

\* Where BroadcastEvent stands once the wrappers in seenF and seenO are visited.
BroadcastPc(seenF, seenO) ==
    IF seenF # FilterWrappers THEN "filters"
    ELSE IF seenO # OutputWrappers THEN "outputs" ELSE "done"

\* A call BroadcastEvent(config, eventType) begins.
BroadcastBegin(eventType) ==
    /\ ~crashed
    /\ bcast.pc \in {"idle", "done"}
    /\ bcast' = [IdleBroadcast EXCEPT !.pc = "post", !.eventType = eventType]
    /\ UNCHANGED <<runVars, globals>>

\* Mutant of BroadcastPost: a failed publish returns from BroadcastEvent.
BroadcastPostReturnsOnError ==
    /\ ~crashed
    /\ bcast.pc = "post"
    /\ \E err \in BOOLEAN :
          bcast' = [bcast EXCEPT !.postErr = err,
                                 !.pc = IF err THEN "done" ELSE BroadcastPc({}, {})]
    /\ UNCHANGED <<runVars, globals>>

\* err := notify.Post(eventType, nil); if err != nil { log.Printf(...) }
BroadcastPost ==
    /\ ~crashed
    /\ bcast.pc = "post"
    /\ \E err \in BOOLEAN :
          bcast' = [bcast EXCEPT !.postErr = err, !.pc = BroadcastPc({}, {})]
    /\ UNCHANGED <<runVars, globals>>

\* if wrapper.global != nil { wrapper.global.Event(eventType) }
NotifyWrapper(w, calls, eventType) ==
    IF w \in globals THEN Append(calls, [wrapper |-> w, eventType |-> eventType])
    ELSE calls

\* One iteration of: for _, wrapper = range config.Filters.
BroadcastFilter(w) ==
    /\ ~crashed
    /\ bcast.pc = "filters"
    /\ w \in FilterWrappers \ bcast.seenFilters
    /\ bcast' = [bcast EXCEPT
          !.calls = NotifyWrapper(w, @, bcast.eventType),
          !.seenFilters = @ \cup {w},
          !.pc = BroadcastPc(bcast.seenFilters \cup {w}, bcast.seenOutputs)]
    /\ UNCHANGED <<runVars, globals>>

\* One iteration of: for _, wrapper = range config.Outputs.
BroadcastOutput(w) ==
    /\ ~crashed
    /\ bcast.pc = "outputs"
    /\ w \in OutputWrappers \ bcast.seenOutputs
    /\ bcast' = [bcast EXCEPT
          !.calls = NotifyWrapper(w, @, bcast.eventType),
          !.seenOutputs = @ \cup {w},
          !.pc = BroadcastPc(bcast.seenFilters, bcast.seenOutputs \cup {w})]
    /\ UNCHANGED <<runVars, globals>>

\* Any configuration of the wrappers' globals; no pack is in use.
InitBroadcast ==
    /\ packs = << >>
    /\ pc = << >>
    /\ trace = << >>
    /\ recycleChan = << >>
    /\ held = [i \in ConfigInputs |-> NoPack]
    /\ started = {}
    /\ cycles = 0
    /\ crashed = FALSE
    /\ panicked = FALSE
    /\ globals \in SUBSET Wrappers
    /\ bcast = IdleBroadcast
    /\ run = IdleRun

NextBroadcast ==
    \/ \E eventType \in {RELOAD, STOP} : BroadcastBegin(eventType)
    \/ BroadcastPost
    \/ \E w \in FilterWrappers : BroadcastFilter(w)
    \/ \E w \in OutputWrappers : BroadcastOutput(w)

SpecBroadcast == InitBroadcast /\ [][NextBroadcast]_vars

(***************************************************************************)
(* Run: the start of the runners, the signal loop and the wait.            *)
(* The message cycles of the started inputs are left to Spec; here an      *)
(* input is a task that is started and, at some moment of its own, ends    *)
(* and calls wg.Done().                                                    *)
(***************************************************************************)
MaxSignals == 3

SIGHUP == "SIGHUP"
SIGINT == "SIGINT"

\* switch sig { case syscall.SIGHUP: ... RELOAD; case syscall.SIGINT: ... STOP }
EventOf(sig) == IF sig = SIGHUP THEN RELOAD ELSE STOP

\* The loop over config.Inputs is over: signal.Notify(sigChan, SIGINT, SIGHUP)
\* and Run blocks in sig := <-sigChan.
RunNotify ==
    /\ ~crashed
    /\ run.pc = "start"
    /\ Len(packs) = PrefillCount
    /\ started = ConfigInputs
    /\ run' = [run EXCEPT !.pc = "listen"]
    /\ UNCHANGED <<packs, pc, trace, recycleChan, held, started, cycles, crashed, panicked,
                   globals, bcast>>

\* Run is in its signal loop and has not received SIGINT.
Running == run.pc = "listen" \/ (run.pc = "broadcast" /\ run.sig = SIGHUP)

\* The process gets sig while Run is in its signal loop.  sigChan is made
\* without a buffer and the signal package never blocks on a send: the signal
\* reaches Run when Run is blocked in the receive, and is dropped otherwise.
Signal(sig) ==
    /\ ~crashed
    /\ Running
    /\ run.hups + run.ints < MaxSignals
    /\ run' = [run EXCEPT
          !.hups = IF sig = SIGHUP THEN @ + 1 ELSE @,
          !.ints = IF sig = SIGINT THEN @ + 1 ELSE @,
          !.sig = IF run.pc = "listen" THEN sig ELSE @,
          !.pc = IF run.pc = "listen" THEN "broadcast" ELSE @]
    /\ UNCHANGED <<packs, pc, trace, recycleChan, held, started, cycles, crashed, panicked,
                   globals, bcast>>

\* BroadcastEvent(config, RELOAD) or BroadcastEvent(config, STOP) is called.
RunBroadcast ==
    /\ ~crashed
    /\ run.pc = "broadcast"
    /\ bcast.pc = "idle"
    /\ BroadcastBegin(EventOf(run.sig))

\* BroadcastEvent returns: after SIGHUP Run receives again, after SIGINT it
\* breaks out of sigListener to wg.Wait().
RunBroadcastReturn ==
    /\ ~crashed
    /\ run.pc = "broadcast"
    /\ bcast.pc = "done"
    /\ bcast' = IdleBroadcast
    /\ run' = [run EXCEPT
          !.pc = IF run.sig = SIGINT THEN "wait" ELSE "listen",
          !.sig = "",
          !.reloads = IF bcast.eventType = RELOAD THEN @ + 1 ELSE @,
          !.stops = IF bcast.eventType = STOP THEN @ + 1 ELSE @]
    /\ UNCHANGED <<packs, pc, trace, recycleChan, held, started, cycles, crashed, panicked,
                   globals>>

\* A started runner ends and calls wg.Done(); a WaitGroup counter that goes
\* below zero panics, and the panic goes on to end the process (FatalPanic).
InputDone(name) ==
    /\ ~crashed
    /\ name \in started \ run.done
    /\ run' = [run EXCEPT !.done = @ \cup {name}, !.wg = @ - 1]
    /\ panicked' = (panicked \/ run.wg - 1 < 0)
    /\ UNCHANGED <<packs, pc, trace, recycleChan, held, started, cycles, crashed,
                   globals, bcast>>

\* Mutant of RunWait: the wait gives up although runners are still counted.
RunWaitTimesOut ==
    /\ ~crashed
    /\ run.pc = "wait"
    /\ run' = [run EXCEPT !.pc = "stopped"]
    /\ UNCHANGED <<packs, pc, trace, recycleChan, held, started, cycles, crashed, panicked,
                   globals, bcast>>

\* wg.Wait() returns when the counter is zero; Run logs and returns.
RunWait ==
    /\ ~crashed
    /\ run.pc = "wait"
    /\ run.wg = 0
    /\ run' = [run EXCEPT !.pc = "stopped"]
    /\ UNCHANGED <<packs, pc, trace, recycleChan, held, started, cycles, crashed, panicked,
                   globals, bcast>>

\* Any configuration of the wrappers' globals, before the pre-fill.
InitRun ==
    /\ packs = << >>
    /\ pc = << >>
    /\ trace = << >>
    /\ recycleChan = << >>
    /\ held = [i \in ConfigInputs |-> NoPack]
    /\ started = {}
    /\ cycles = 0
    /\ crashed = FALSE
    /\ panicked = FALSE
    /\ globals \in SUBSET Wrappers
    /\ bcast = IdleBroadcast
    /\ run = IdleRun

\* The steps of Run itself.
RunStep ==
    \/ Prefill
    \/ \E name \in ConfigInputs : RunStart(name)
    \/ RunAdd
    \/ RunNotify
    \/ RunBroadcast
    \/ BroadcastPost
    \/ \E w \in FilterWrappers : BroadcastFilter(w)
    \/ \E w \in OutputWrappers : BroadcastOutput(w)
    \/ RunBroadcastReturn
    \/ RunWait

NextRun ==
    \/ RunStep
    \/ \E sig \in {SIGHUP, SIGINT} : Signal(sig)
    \/ \E name \in ConfigInputs : InputDone(name)
    \/ FatalPanic

SpecRun == InitRun /\ [][NextRun]_vars

\* Run is scheduled whenever it can take a step, and a process that is ending
\* ends; nothing is assumed of the signals or of the inputs.
SpecRunFair == SpecRun /\ WF_vars(RunStep) /\ WF_vars(FatalPanic)

\* Once the process has ended nothing of it runs: no action of Next, NextStall,
\* NextBroadcast or NextRun is enabled.
EndedProcessIsStill == [][crashed => UNCHANGED vars]_vars

(***************************************************************************)
(* Reading a pack's trace.                                                 *)
(***************************************************************************)
InPipeline == {"decode", "filter", "deliver", "deferred", "panicking"}
Has(tr, kind) == \E k \in DOMAIN tr : tr[k].k = kind
Count(tr, kind) == Cardinality({k \in DOMAIN tr : tr[k].k = kind})
CountNamed(tr, kind, name) ==
    Cardinality({k \in DOMAIN tr : tr[k].k = kind /\ tr[k].n = name})
First(tr, kind) == tr[CHOOSE k \in DOMAIN tr : tr[k].k = kind]
InChan(u) == Cardinality({k \in DOMAIN recycleChan : recycleChan[k] = u})
\* A pack whose last cycle has ended: it went through pipeline and is back.
Cycled(u) == pc[u] \in {"pool", "input"} /\ trace[u] # << >>

\* Packs received from the channel and not yet sent back to it.
Outstanding == Cardinality({u \in Units : pc[u] # "pool"})

(***************************************************************************)
(* C1  Pool bound: the packs acquired and not yet released never number    *)
(* more than PoolSize, and while PoolSize packs are outstanding no input   *)
(* can complete a receive from the recycle channel.                        *)
(***************************************************************************)
C1_PoolBound ==
    /\ Outstanding <= PoolSize
    /\ Outstanding = PoolSize => \A name \in ConfigInputs : ~ENABLED Acquire(name)

\* Every pack is out and a started input waits at the receive.
C1_Witness ==
    /\ Outstanding = PoolSize
    /\ PoolSize > 0
    /\ \E name \in started : held[name] = NoPack
    /\ \E u \in Units : pc[u] \in InPipeline

(***************************************************************************)
(* C2  Guaranteed recycle: a pack in pipeline has not been zeroed or sent  *)
(* back yet and is not in the channel, every step of pipeline leads on to  *)
(* the deferred function, whose send finds room in the channel, and a pack *)
(* whose cycle has ended was zeroed and sent to the channel exactly once,  *)
(* as the last two calls of the cycle, whichever way the cycle ended.      *)
(***************************************************************************)
C2_GuaranteedRecycle ==
    \A u \in Units :
        /\ pc[u] \in InPipeline \cup {"pool", "input"}
        /\ pc[u] \in InPipeline =>
              /\ ~Has(trace[u], "zero") /\ ~Has(trace[u], "recycle")
              /\ InChan(u) = 0
              /\ pc[u] \in {"deferred", "panicking"} => Len(recycleChan) < RecycleCap
        /\ pc[u] = "pool" => InChan(u) = 1
        /\ pc[u] = "input" => InChan(u) = 0
        /\ Cycled(u) =>
              /\ Count(trace[u], "zero") = 1 /\ Count(trace[u], "recycle") = 1
              /\ Len(trace[u]) >= 2
              /\ trace[u][Len(trace[u]) - 1].k = "zero"
              /\ trace[u][Len(trace[u])].k = "recycle"

\* Two cycles have ended, one at a failed decode and one by a panic in a filter.
C2_Witness ==
    \E u, v \in Units :
        /\ Cycled(u) /\ Cycled(v)
        /\ Has(trace[u], "nodecoder")
        /\ Has(trace[v], "nilfilter")

(***************************************************************************)
(* C3  Reset completeness: every pack in the pool has Decoded and Blocked  *)
(* false, the default decoder and filter chain, no output name, and a      *)
(* buffer as long as its capacity.                                         *)
(***************************************************************************)
C3_ResetComplete ==
    \A u \in Units :
        pc[u] = "pool" =>
            /\ packs[u].Decoded = FALSE
            /\ packs[u].Blocked = FALSE
            /\ packs[u].Decoder = DefaultDecoder
            /\ packs[u].FilterChain = DefaultFilterChain
            /\ DOMAIN packs[u].OutputNames = {}
            /\ packs[u].MsgBytesLen = MsgBytesCap

\* The pool holds a pack that a filter blocked after its chain and outputs were
\* selected, and one that came in with another decoder.
C3_Witness ==
    \E u, v \in Units :
        /\ pc[u] = "pool" /\ pc[v] = "pool"
        /\ Has(trace[u], "blocked") /\ Has(trace[u], "select")
        /\ First(trace[u], "select").n # DefaultFilterChain
        /\ Has(trace[v], "nodecoder")

(***************************************************************************)
(* C4  Filter short-circuit: once a filter of the chain has left Blocked   *)
(* set, the cycle calls no further filter and no output (only the deferred *)
(* reset and send follow), and the recycled pack has Blocked = false.      *)
(***************************************************************************)
C4_FilterShortCircuit ==
    \A u \in Units :
        /\ \A k \in DOMAIN trace[u] :
              trace[u][k].k = "blocked" =>
                  \A j \in DOMAIN trace[u] :
                      j > k => trace[u][j].k \in {"zero", "recycle"}
        /\ Cycled(u) /\ Has(trace[u], "blocked") => packs[u].Blocked = FALSE

\* A cycle has ended in which a filter blocked, with filters after it in the
\* chain and outputs selected.
C4_Witness ==
    \E u \in Units :
        /\ Cycled(u)
        /\ Has(trace[u], "blocked") /\ Has(trace[u], "select")
        /\ First(trace[u], "blocked").i
              < Len(FilterChains[First(trace[u], "select").n].Filters)
        /\ First(trace[u], "select").i > 0

(***************************************************************************)
(* C5  Decode abort: in a cycle entered with Decoded = false whose decoder *)
(* is missing or fails, neither the chain lookup nor any filter or output  *)
(* is called, and Decoded stays false through the recycle.                 *)
(***************************************************************************)
DecodeFailed(tr) ==
    /\ Has(tr, "enter") /\ First(tr, "enter").i = 0
    /\ \/ Has(tr, "nodecoder")
       \/ \E k \in DOMAIN tr : tr[k].k = "decode" /\ tr[k].i = 0

C5_DecodeAbort ==
    \A u \in Units :
        DecodeFailed(trace[u]) =>
            /\ \A k \in DOMAIN trace[u] :
                  trace[u][k].k \in {"prev", "enter", "nodecoder", "decode", "zero", "recycle"}
            /\ Count(trace[u], "decode") + Count(trace[u], "nodecoder") = 1
            /\ packs[u].Decoded = FALSE
            /\ pc[u] \in {"deferred", "pool", "input"}

\* One cycle has ended at a missing decoder and one at a decode error.
C5_Witness ==
    \E u, v \in Units :
        /\ Cycled(u) /\ Cycled(v)
        /\ Has(trace[u], "nodecoder")
        /\ Has(trace[v], "decode") /\ First(trace[v], "decode").i = 0

(***************************************************************************)
(* C6  Routing fallback: with no match from LocateChain the chain resolved *)
(* is the FilterChain the pack carried into routing, and FilterChain is    *)
(* unchanged; with a match FilterChain becomes the matched name and that   *)
(* name is the one resolved.                                               *)
(***************************************************************************)
C6_RoutingFallback ==
    \A u \in Units :
        Has(trace[u], "locate") =>
            LET carried  == First(trace[u], "route").n
                located  == First(trace[u], "locate")
                resolved == First(trace[u], "resolve").n
            IN  /\ pc[u] \in InPipeline =>
                      (located.i = 1) = LocateChain(packs[u].Message).ok
                /\ located.i = 0 =>
                      /\ resolved = carried
                      /\ pc[u] \in InPipeline => packs[u].FilterChain = carried
                /\ located.i = 1 =>
                      /\ resolved = located.n
                      /\ located.n = LocateChain(packs[u].Message).name
                      /\ pc[u] \in InPipeline => packs[u].FilterChain = located.n

\* Two packs are past routing, one with no match and one matched to a chain
\* other than the one it carried.
C6_Witness ==
    \E u, v \in Units :
        /\ pc[u] \in InPipeline /\ pc[v] \in InPipeline
        /\ Has(trace[u], "locate") /\ First(trace[u], "locate").i = 0
        /\ Has(trace[v], "locate") /\ First(trace[v], "locate").i = 1
        /\ First(trace[v], "locate").n # First(trace[v], "route").n

(***************************************************************************)
(* C7  Default-chain fallback across cycles: a message with no match is    *)
(* routed through the default filter chain, whatever chain the pack's      *)
(* earlier cycles selected.                                                *)
(***************************************************************************)
C7_DefaultFallback ==
    \A u \in Units :
        Has(trace[u], "locate") /\ First(trace[u], "locate").i = 0 =>
            /\ First(trace[u], "resolve").n = DefaultFilterChain
            /\ Has(trace[u], "select") =>
                  First(trace[u], "select").n = DefaultFilterChain

\* A pack whose previous cycle selected another chain has delivered an
\* unmatched message through the default chain.
C7_Witness ==
    \E u \in Units :
        /\ Cycled(u)
        /\ First(trace[u], "prev").n \notin {"", DefaultFilterChain}
        /\ Has(trace[u], "locate") /\ First(trace[u], "locate").i = 0
        /\ Has(trace[u], "select")
        /\ CountNamed(trace[u], "deliver", "out1") = 1

(***************************************************************************)
(* C8  Missing chain: when the resolved chain name is not configured, the  *)
(* cycle calls no filter, reaches the delivery loop with no output name    *)
(* selected, delivers nothing, and still resets and returns the pack.      *)
(***************************************************************************)
C8_MissingChain ==
    \A u \in Units :
        Has(trace[u], "resolve") /\ First(trace[u], "resolve").i = 0 =>
            /\ \A k \in DOMAIN trace[u] :
                  trace[u][k].k \notin
                      {"select", "filter", "nilfilter", "blocked", "deliver", "nooutput"}
            /\ pc[u] \in {"deliver", "deferred", "pool", "input"}
            /\ pc[u] = "deliver" => DOMAIN packs[u].OutputNames = {}
            /\ Has(trace[u], "range") => First(trace[u], "range").i = 0
            /\ pc[u] \in {"deferred", "pool", "input"} => Has(trace[u], "range")

\* A pack whose previous cycle selected outputs has ended a cycle on a chain
\* name that is not configured.
C8_Witness ==
    \E u \in Units :
        /\ Cycled(u)
        /\ First(trace[u], "prev").n # ""
        /\ Has(trace[u], "resolve") /\ First(trace[u], "resolve").i = 0
        /\ Has(trace[u], "range")

(***************************************************************************)
(* C9  Delivery with missing-output tolerance: a cycle that is decoded,    *)
(* routed to a configured chain and not blocked calls Deliver exactly once *)
(* on every output the chain lists that is in the pack's output map.       *)
(* The runner does not do this when the chain names a filter that is not   *)
(* in the pack's filter map: the call on the nil Filter panics before the  *)
(* delivery loop.                                                          *)
(***************************************************************************)
ListedOutputs(cn) ==
    {FilterChains[cn].Outputs[k] : k \in DOMAIN FilterChains[cn].Outputs}

Routed(tr) ==
    /\ Has(tr, "resolve") /\ First(tr, "resolve").i = 1
    /\ ~Has(tr, "blocked")

DeliversListed(u) ==
    LET cn == First(trace[u], "resolve").n
    IN  /\ \A n \in ListedOutputs(cn) \cap packs[u].Outputs :
              CountNamed(trace[u], "deliver", n) = 1
        /\ \A n \in ListedOutputs(cn) \ packs[u].Outputs :
              CountNamed(trace[u], "deliver", n) = 0

C9_DeliveryExactlyOnce ==
    \A u \in Units : Cycled(u) /\ Routed(trace[u]) => DeliversListed(u)

\* The same on the cycles in which no filter lookup came back nil: there the
\* delivery loop does what C9 says, absent names and repeated names included.
C9_DeliveryWhenFiltersPresent ==
    \A u \in Units :
        Cycled(u) /\ Routed(trace[u]) /\ ~Has(trace[u], "nilfilter") =>
            /\ DeliversListed(u)
            /\ Count(trace[u], "deliver") + Count(trace[u], "nooutput")
                  = First(trace[u], "range").i

\* A cycle has delivered once to an output listed twice and skipped an absent one.
C9_DeliveredPastAbsent ==
    \E u \in Units :
        /\ Cycled(u) /\ Routed(trace[u])
        /\ Has(trace[u], "nooutput")
        /\ CountNamed(trace[u], "deliver", "out2") = 1

(***************************************************************************)
(* C10  Broadcast completeness: a finished BroadcastEvent(eventType) has   *)
(* called Event(eventType) once on every configured wrapper whose global   *)
(* is not nil and on no other wrapper, whether or not notify.Post returned *)
(* an error.  The runner breaks this: BroadcastEvent ranges over           *)
(* config.Filters and config.Outputs only, so the global of a decoder or   *)
(* input wrapper is never called.                                          *)
(***************************************************************************)
CallsOn(w) == Cardinality({k \in DOMAIN bcast.calls : bcast.calls[k].wrapper = w})

C10_BroadcastComplete ==
    /\ \A k \in DOMAIN bcast.calls :
          /\ bcast.calls[k].wrapper \in globals
          /\ bcast.calls[k].eventType = bcast.eventType
    /\ bcast.pc = "done" =>
          \A w \in Wrappers : CallsOn(w) = IF w \in globals THEN 1 ELSE 0

\* What the runner does keep: the globals of the filter and output wrappers
\* are called once each, also after a failed publish, and nothing else is.
C10_FiltersAndOutputsComplete ==
    /\ \A k \in DOMAIN bcast.calls :
          /\ bcast.calls[k].wrapper \in globals \cap (FilterWrappers \cup OutputWrappers)
          /\ bcast.calls[k].eventType = bcast.eventType
    /\ bcast.pc = "done" =>
          \A w \in FilterWrappers \cup OutputWrappers :
              CallsOn(w) = IF w \in globals THEN 1 ELSE 0

\* A broadcast whose publish failed has finished, with a filter and an output
\* global called, a wrapper without global passed over and a decoder global
\* left out.
C10_DecoderGlobalSkipped ==
    /\ bcast.pc = "done"
    /\ bcast.postErr
    /\ \E w \in FilterWrappers \cap globals : CallsOn(w) = 1
    /\ \E w \in OutputWrappers \cap globals : CallsOn(w) = 1
    /\ \E w \in (FilterWrappers \cup OutputWrappers) \ globals : CallsOn(w) = 0
    /\ \E w \in DecoderWrappers \cap globals : CallsOn(w) = 0

(***************************************************************************)
(* C13  Message-level errors are local: no failure inside one message      *)
(* cycle ends the process.  The runner breaks this for a filter name that  *)
(* is not in the pack's filter map: the call on the nil Filter panics and  *)
(* the unrecovered panic ends the process and every other cycle with it.   *)
(***************************************************************************)
C13_ErrorsLocal == ~crashed

\* The other failures of a cycle are local: only a cycle that called a nil
\* Filter panics, the process ends only after such a panic, and after a
\* missing decoder, a decode error, a missing chain or a missing output the
\* pack is recycled like any other.
C13_LocalButNilFilter ==
    /\ [](/\ crashed => panicked
          /\ \A u \in Units :
                ~Has(trace[u], "nilfilter") => pc[u] # "panicking")
    /\ [][panicked' /\ ~panicked
            => \E u \in Units : pc[u] = "panicking" /\ Has(trace[u], "nilfilter")]_vars

\* Cycles have ended at a missing decoder and at a missing chain, and the
\* process runs on.
C13_FailuresSurvived ==
    /\ ~crashed
    /\ \E u, v \in Units :
          /\ Cycled(u) /\ Cycled(v)
          /\ Has(trace[u], "nodecoder")
          /\ Has(trace[v], "resolve") /\ First(trace[v], "resolve").i = 0

(***************************************************************************)
(* C14  Exclusive ownership and conservation: no more than PoolSize packs  *)
(* are ever made, all of them by the pre-fill, and each is in exactly one  *)
(* place: once in the channel, held by one input, or in one run of         *)
(* pipeline.                                                               *)
(***************************************************************************)
Holders(u) == Cardinality({name \in ConfigInputs : held[name] = u})

C14_ExclusiveOwnership ==
    /\ Len(packs) <= PoolSize
    /\ started # {} => Len(packs) = PoolSize
    /\ \A k \in DOMAIN recycleChan : recycleChan[k] \in Units
    /\ \A name \in ConfigInputs : held[name] \in Units \cup {NoPack}
    /\ \A u \in Units :
          /\ InChan(u) + Holders(u) + (IF pc[u] \in InPipeline THEN 1 ELSE 0) = 1
          /\ (pc[u] = "pool") = (InChan(u) = 1)
          /\ (pc[u] = "input") = (Holders(u) = 1)

\* One pack is back in the channel after a cycle, another is in pipeline, and
\* an input waits for a pack.
C14_Witness ==
    /\ PoolSize > 1
    /\ \E u, v \in Units :
          /\ pc[u] = "pool" /\ trace[u] # << >>
          /\ pc[v] \in InPipeline
    /\ \E name \in started : held[name] = NoPack

(***************************************************************************)
(* C15  Decoded invariant: Decoded is true exactly when Message holds a    *)
(* decoded value.  The runner breaks this: Zero clears Decoded and leaves  *)
(* Message, so a recycled pack still holds the previous cycle's message.   *)
(***************************************************************************)
C15_DecodedIffMessage ==
    \A u \in Units : packs[u].Decoded = (packs[u].Message \in Messages)

\* What the runner does keep: a pack with Decoded set holds a decoded message,
\* and filters and outputs are called only in cycles that came in decoded or
\* whose decoder succeeded.
C15_DecodedBeforeUse ==
    \A u \in Units :
        /\ packs[u].Decoded => packs[u].Message \in Messages
        /\ (\E k \in DOMAIN trace[u] :
               trace[u][k].k \in {"route", "filter", "nilfilter", "range", "deliver"})
              => \/ First(trace[u], "enter").i = 1
                 \/ \E k \in DOMAIN trace[u] :
                       trace[u][k].k = "decode" /\ trace[u][k].i = 1

(***************************************************************************)
(* C17  Stage order within one cycle: the calls on a pack come in the      *)
(* order decode, chain lookup, selection of the outputs, filters,          *)
(* deliveries; the filters are those of the resolved chain in declared     *)
(* order; the decoder is called at most once, and not at all for a pack    *)
(* that came in decoded.                                                   *)
(***************************************************************************)
StageRank ==
    [prev |-> 0, enter |-> 1, decode |-> 2, nodecoder |-> 2, route |-> 3,
     locate |-> 4, resolve |-> 5, select |-> 6, filter |-> 7, blocked |-> 7,
     nilfilter |-> 7, range |-> 8, deliver |-> 9, nooutput |-> 9, zero |-> 10,
     recycle |-> 11]
StageOf(kind) == StageRank[kind]

\* The calls of FilterMsg in the trace, in order.
FilterCalls(tr) == SelectSeq(tr, LAMBDA e : e.k = "filter")

\* Stages never go back and only filters and deliveries repeat, so the calls
\* of FilterMsg are next to each other: each is the first of the selected chain
\* or the one after the call before it.
C17_StageOrder ==
    \A u \in Units :
        LET tr == trace[u]
        IN  \A k \in 2..Len(tr) :
                /\ StageOf(tr[k-1].k) <= StageOf(tr[k].k)
                /\ StageOf(tr[k-1].k) = StageOf(tr[k].k)
                      => StageOf(tr[k].k) \in {7, 9}
                /\ tr[k].k \in {"decode", "nodecoder"}
                      => tr[k-1].k = "enter" /\ tr[k-1].i = 0
                /\ tr[k].k = "filter" =>
                      /\ tr[k-1].k \in {"select", "filter"}
                      /\ tr[k].i = (IF tr[k-1].k = "filter" THEN tr[k-1].i + 1 ELSE 1)
                      /\ tr[k].i <= Len(FilterChains[First(tr, "select").n].Filters)
                      /\ tr[k].n = FilterChains[First(tr, "select").n].Filters[tr[k].i]

\* A cycle has ended that decoded, called two filters and delivered; another
\* came in decoded.
C17_Witness ==
    \E u, v \in Units :
        /\ Cycled(u)
        /\ Has(trace[u], "decode")
        /\ Len(FilterCalls(trace[u])) = 2
        /\ Has(trace[u], "deliver")
        /\ trace[v] # << >> /\ First(trace[v], "enter").i = 1
        /\ Has(trace[v], "filter")

(***************************************************************************)
(* C20  Release never blocks: the recycle channel never holds more than    *)
(* PoolSize packs, so every send of the pre-fill loop and every send of    *)
(* the deferred function finds a free slot.                                *)
(***************************************************************************)
C20_ReleaseNeverBlocks ==
    /\ Len(recycleChan) <= PoolSize
    /\ PoolSize < RecycleCap
    /\ Len(packs) < PrefillCount => Len(recycleChan) < RecycleCap
    /\ \A u \in Units :
          pc[u] \in {"deferred", "panicking"} => Len(recycleChan) < RecycleCap

\* A cycle has just sent its pack back and the channel holds the whole pool.
C20_Witness ==
    /\ Len(recycleChan) = PoolSize
    /\ PoolSize > 0
    /\ \E u \in Units : pc[u] = "pool" /\ trace[u] # << >>

(***************************************************************************)
(* C11  Signal handling: every SIGHUP delivered while Run is in its signal *)
(* loop gets a BroadcastEvent(RELOAD), every SIGINT a BroadcastEvent(STOP),*)
(* whatever the timing.  The runner breaks this: sigChan has no buffer, so *)
(* a signal that comes while BroadcastEvent is executing is dropped.       *)
(***************************************************************************)
\* The broadcasts that have returned or are under way, by the signal that led
\* to them.
Answered(sig) ==
    (IF sig = SIGHUP THEN run.reloads ELSE run.stops)
      + (IF run.pc = "broadcast" /\ run.sig = sig THEN 1 ELSE 0)

C11_EverySignalBroadcast ==
    /\ run.hups = Answered(SIGHUP)
    /\ run.ints = Answered(SIGINT)

\* What the runner does keep: a signal that finds Run blocked in the receive
\* is answered by the broadcast of its own event type, SIGHUP leaves Run in
\* the loop and SIGINT takes it to wg.Wait().
C11_ReceivedSignalBroadcast ==
    [][/\ run.pc = "listen" /\ run'.pc # "listen"
          => /\ run'.pc = "broadcast" /\ run'.sig \in {SIGHUP, SIGINT}
       /\ run.pc = "broadcast" /\ run'.pc # "broadcast"
          => /\ bcast.pc = "done" /\ bcast.eventType = EventOf(run.sig)
             /\ run'.pc = (IF run.sig = SIGINT THEN "wait" ELSE "listen")
       /\ run.pc = "broadcast" /\ bcast.pc # "idle"
          => bcast.eventType = EventOf(run.sig)]_vars

\* Signals have been answered: two reloads and the stop have returned.
C11_SignalsAnswered == run.reloads = 2 /\ run.stops = 1 /\ run.pc = "wait"

(***************************************************************************)
(* C12  No premature exit: Run returns only after BroadcastEvent(STOP) has *)
(* returned and every started runner has called Done; it returns only from *)
(* wg.Wait(), and no runner is started once the loop over the inputs is    *)
(* over.                                                                   *)
(***************************************************************************)
C12_NoPrematureExit ==
    /\ [](run.pc = "stopped"
            => /\ run.stops >= 1
               /\ bcast.pc = "idle"
               /\ started = ConfigInputs
               /\ run.done = started)
    /\ [][/\ run'.pc = "stopped" /\ run.pc # "stopped" => run.pc = "wait"
          /\ run'.pc = "wait" /\ run.pc # "wait"
                => run.pc = "broadcast" /\ bcast.eventType = STOP
          /\ started' # started => run.pc = "start"
          /\ run.pc \notin {"start", "add"} => run'.pc \notin {"start", "add"}]_vars

\* Run has returned after a reload, the stop and the end of both runners.
C12_Witness ==
    /\ run.pc = "stopped"
    /\ run.done = ConfigInputs
    /\ run.reloads >= 1

(***************************************************************************)
(* C16  Accurate completion tracking: at every moment the WaitGroup        *)
(* counter is the number of started runners that have not called Done,     *)
(* and it never goes below zero.  The runner breaks this: Start comes      *)
(* before Add(1), so a runner that ends at once calls Done on a counter    *)
(* that does not count it yet.                                             *)
(***************************************************************************)
Unfinished == Cardinality(started \ run.done)

C16_CounterTracksInputs ==
    /\ run.wg = Unfinished
    /\ run.wg >= 0

\* What the runner does keep: once the loop over the inputs is over the counter
\* is the number of unfinished runners, and it is negative only after a panic.
C16_CounterAfterLoop ==
    /\ run.pc \notin {"start", "add"} => run.wg = Unfinished /\ run.wg >= 0
    /\ ~panicked => run.wg >= 0

\* A runner ended before it was counted, and the process is gone.
C16_DoneBeforeAdd == crashed /\ panicked /\ run.wg < 0 /\ run.pc = "add"

(***************************************************************************)
(* C18  Shutdown liveness: once Run waits after the stop and every started *)
(* runner has called Done, Run returns; and as long as some started runner *)
(* has not, Run stays in wg.Wait(): there is no timeout.  The runner       *)
(* breaks the first half through the panic of C16: a Done that came before *)
(* its Add has panicked, and the process ends before Run returns.          *)
(***************************************************************************)
C18_ShutdownLiveness ==
    /\ (run.pc = "wait" /\ run.done = started) ~> (run.pc = "stopped")
    /\ [][run.pc = "wait" /\ run.done # started => run'.pc = "wait"]_vars

\* What the runner does keep: short of that panic Run returns once every
\* runner has called Done, and it never leaves the wait before.
C18_LivenessButPanic ==
    /\ (run.pc = "wait" /\ run.done = started) ~> (run.pc = "stopped" \/ crashed)
    /\ (run.pc = "wait" /\ run.done = started /\ ~panicked) ~> (run.pc = "stopped")
    /\ [][run.pc = "wait" /\ run.done # started => run'.pc = "wait"]_vars

\* Run has returned from the wait, which a runner had kept it in.
C18_Returned ==
    /\ run.pc = "stopped"
    /\ run.ints >= 1
    /\ run.wg = 0
    /\ run.done = started

(***************************************************************************)
(* C19  Stall isolation: while fewer than PoolSize cycles are stalled, an  *)
(* input that waits for a pack gets one and the cycles that are not        *)
(* stalled end; with PoolSize cycles stalled nothing can be received.      *)
(* The runner breaks this through the panic of C13: a cycle that calls a   *)
(* nil filter ends the process, and the waiting inputs with it.            *)
(***************************************************************************)
Waiting(name) == name \in started /\ held[name] = NoPack

\* Where pack u is, "" before the pre-fill has made it.
PcOf(u) == IF u \in Units THEN pc[u] ELSE ""

C19_StallIsolation ==
    /\ \A name \in ConfigInputs :
          Waiting(name) ~> (held[name] # NoPack \/ Cardinality(Stalled) = PoolSize)
    /\ \A u \in 1..PoolSize :
          (PcOf(u) \in {"decode", "filter", "deliver", "deferred"})
             ~> (PcOf(u) \in {"pool", "stalled"})

\* What the runner does keep: short of a panic, the waiting input is served
\* and the cycles that are not stalled end, whatever the other cycles do.
C19_IsolationButPanic ==
    /\ \A name \in ConfigInputs :
          Waiting(name)
             ~> (held[name] # NoPack \/ Cardinality(Stalled) = PoolSize \/ crashed)
    /\ \A u \in 1..PoolSize :
          (PcOf(u) \in {"decode", "filter", "deliver", "deferred"})
             ~> (PcOf(u) \in {"pool", "stalled"} \/ crashed)

\* With every pack in a stalled cycle the channel is empty and no input holds
\* a pack: every receive blocks, and a stalled cycle stays stalled.
C19_AllStalledBlocks ==
    /\ [](Cardinality(Stalled) = PoolSize /\ Len(packs) = PoolSize
            => /\ recycleChan = << >>
               /\ \A name \in ConfigInputs : held[name] = NoPack)
    /\ [][\A u \in Units : pc[u] = "stalled" => pc'[u] = "stalled"]_vars

\* A pack is stalled, and an input has received the other pack after that
\* pack's cycle ended.
C19_ServedBesideStall ==
    /\ Cardinality(Stalled) = PoolSize - 1
    /\ PoolSize > 1
    /\ \E name \in started : held[name] # NoPack /\ trace[held[name]] # << >>

====
